---- MODULE Spec2Model ----
(***************************************************************************)
(* A model of the log-structured key/value store KvStore                   *)
(* (projects/project-4/src/kvs_engine/kv_store.rs).                        *)
(*                                                                         *)
(* The store directory is a map from segment ids to byte sequences, the    *)
(* engine state is {index, active_nth_file, active_writer}, guarded by one *)
(* readers-writer lock and used by several threads through cloned handles. *)
(* A byte is a one-character string.  The JSON text of a record is kept in *)
(* compressed form: "S" stands for {"Set":{"key":" , "," for ","value":" , *)
(* "}" for "}} and "R" for {"Rm":{"key":" ; the characters of the key and  *)
(* of the value are written raw between them, as serde_json writes every   *)
(* character other than the quote, the backslash and control characters.   *)
(* Every record is followed by the terminator byte "#".                    *)
(*                                                                         *)
(* The start of kvs-server (projects/project-4/src/bin/kvs-server.rs), with *)
(* its choice of the engine, is modelled by the variable server.           *)
(***************************************************************************)
EXTENDS Naturals, Sequences, FiniteSets, TLC

\* ------------------------------------------------------------------ sizes

\* Size threshold of one segment, in bytes (1024 * 1024 in the source,
\* scaled to the record lengths of this model: a Set record takes 6 bytes).
SINGLE_FILE_SIZE == 5

\* Factor of the compaction condition index.len() < active_nth_file * 1024
\* (scaled to the number of keys of this model).
LIVE_RATIO == 2

\* Number of calls of set/get/remove explored in one behaviour.
MaxOps == 4

\* Number of times the handle is dropped and the directory reopened.
MaxReopen == 1

\* Number of times kvs-server is started in one behaviour.
MaxStart == 3

Threads == {"t1", "t2"}

Keys == {<<"a">>, <<"b">>}

Values == {<<"x">>, <<"y">>, <<"#">>}

NoStr == <<>>

\* ------------------------------------------------------------------ codec

SetCmd(k, v) == [type |-> "Set", key |-> k, value |-> v]

RmCmd(k) == [type |-> "Rm", key |-> k, value |-> NoStr]

BadCmd == [type |-> "Err", key |-> NoStr, value |-> NoStr]

Structural == {"S", "R", ",", "}"}

IsText(s) == \A i \in 1..Len(s) : s[i] \notin Structural

\* serde_json::to_writer(command)
Encode(c) ==
    IF c.type = "Set"
    THEN <<"S">> \o c.key \o <<",">> \o c.value \o <<"}">>
    ELSE <<"R">> \o c.key \o <<"}">>

\* serde_json::from_slice(bytes): BadCmd stands for Err(SerdeJSONError)
Decode(b) ==
    LET n == Len(b) IN
    IF n >= 2 /\ b[1] = "R" /\ b[n] = "}" /\ IsText(SubSeq(b, 2, n - 1))
    THEN RmCmd(SubSeq(b, 2, n - 1))
    ELSE IF n >= 3 /\ b[1] = "S" /\ b[n] = "}"
            /\ \E j \in 2..(n - 1) :
                  /\ b[j] = ","
                  /\ IsText(SubSeq(b, 2, j - 1))
                  /\ IsText(SubSeq(b, j + 1, n - 1))
         THEN LET j == CHOOSE j \in 2..(n - 1) :
                          /\ b[j] = ","
                          /\ IsText(SubSeq(b, 2, j - 1))
                          /\ IsText(SubSeq(b, j + 1, n - 1))
              IN SetCmd(SubSeq(b, 2, j - 1), SubSeq(b, j + 1, n - 1))
         ELSE BadCmd

\* Index of the first "#" of b at or after position i (1-based), 0 if none.
FirstHash(b, i) ==
    IF \E j \in i..Len(b) : b[j] = "#"
    THEN CHOOSE j \in i..Len(b) : b[j] = "#" /\ \A m \in i..(j - 1) : b[m] # "#"
    ELSE 0

\* BufRead::read_until(b'#') from byte offset pos, followed by Vec::pop()
ReadUntilPop(b, pos) ==
    LET j    == FirstHash(b, pos + 1)
        read == IF pos >= Len(b) THEN <<>>
                ELSE IF j = 0 THEN SubSeq(b, pos + 1, Len(b))
                ELSE SubSeq(b, pos + 1, j)
    IN IF read = <<>> THEN <<>> ELSE SubSeq(read, 1, Len(read) - 1)

\* bytes of a file from position i (1-based) on, as BufRead::split(b'#') yields them
RECURSIVE SplitFrom(_, _)
SplitFrom(b, i) ==
    IF i > Len(b) THEN <<>>
    ELSE LET j == FirstHash(b, i) IN
         IF j = 0 THEN <<SubSeq(b, i, Len(b))>>
         ELSE <<SubSeq(b, i, j - 1)>> \o SplitFrom(b, j + 1)

\* ---------------------------------------------------------------- results

Ok == <<"Ok", NoStr>>

None == <<"None", NoStr>>

Some(v) == <<"Some", v>>

KeyNotFound == <<"KeyNotFound", NoStr>>

ErrIO == <<"IOError", NoStr>>

ErrSerde == <<"SerdeJSONError", NoStr>>

ErrorLogMeet == <<"ErrorLogMeet", NoStr>>

Unknown == <<"Unknown", NoStr>>

NoRes == <<"-", NoStr>>

NoOp == [kind |-> "none", key |-> NoStr, value |-> NoStr]

EmptyMap == [k \in {} |-> <<0, 0>>]

\* ------------------------------------------------------------------ state

VARIABLES
    files,            \* the directory: segment id n |-> bytes of kvs.data.n
    index,            \* KvStoreState.index: key |-> <<segment id, offset>>
    active_nth_file,  \* KvStoreState.active_nth_file
    writer_file,      \* segment id of the file KvStoreState.active_writer has open
    wbuf,             \* bytes held in the BufWriter, not yet written to the file
    status,           \* "open", "closed" (handle dropped), "failed" (open returned Err)
    lockw,            \* thread holding the RwLock for writing, or "none"
    lockr,            \* threads holding the RwLock for reading
    pc,               \* position of each thread
    op,               \* the call each thread is in, or made last
    res,              \* the result of the last call of each thread
    last_pos,         \* local pos of set/remove, argument last_pos of try_compact
    new_index,        \* local new_index of compact
    todo,             \* keys of state.index that compact has not visited yet
    rm_i,             \* loop variable i of the remove_file loop of compact
    nops,             \* calls made so far
    nreopen,          \* reopens made so far
    oracle,           \* history: per key, the result of the last write that returned
    quiet,            \* history: answer of get for every key when the last write ended
    pre_compact,      \* history: answer of get for every key when compact was entered
    compacted,        \* history: the last call that wrote ran compact to its end
    closed_answers,   \* history: answer of get for every key when the handle was dropped
    all_ok,           \* history: no set/remove has returned an error
    crash_at,         \* history: where the writing thread was when the process stopped
    io_failed,        \* history: a file operation of try_compact or compact has failed
    server            \* kvs-server, its process and its working directory:
                      \*   engine     the value of --engine, "none" when not given
                      \*   db_dirs    the engines whose directory db.<engine> exists
                      \*   pc         position of the process in main
                      \*   kind       the EngineKind check_engine returned
                      \*   exit_code  the exit code of the process that ended last
                      \*   nstart     the starts made so far

vars == <<files, index, active_nth_file, writer_file, wbuf, status, lockw, lockr,
          pc, op, res, last_pos, new_index, todo, rm_i, nops, nreopen,
          oracle, quiet, pre_compact, compacted, closed_answers, all_ok,
          crash_at, io_failed, server>>

\* ------------------------------------------------------------ file helpers

\* the directory fs with bytes b appended to segment n
AppendTo(fs, n, b) == [fs EXCEPT ![n] = fs[n] \o b]

\* the directory fs without segment n
Unlink(fs, n) == [m \in DOMAIN fs \ {n} |-> fs[m]]

\* KvStore::read_command_from(path_at(n), pos): "IOError" when the file is missing
ReadCommandFrom(fs, n, pos) ==
    IF n \notin DOMAIN fs THEN [type |-> "IOError", key |-> NoStr, value |-> NoStr]
    ELSE Decode(ReadUntilPop(fs[n], pos))

\* the body of KvStore::get on index idx and directory fs
GetBodyOn(idx, fs, k) ==
    IF k \in DOMAIN idx
    THEN LET c == ReadCommandFrom(fs, idx[k][1], idx[k][2]) IN
         CASE c.type = "Set" -> Some(c.value)
           [] c.type = "IOError" -> ErrIO
           [] c.type = "Err" -> ErrSerde
           [] OTHER -> ErrorLogMeet
    ELSE None

GetBody(k) == GetBodyOn(index, files, k)

Answers(idx, fs) == [k \in Keys |-> GetBodyOn(idx, fs, k)]

NoAnswers == [k \in Keys |-> NoRes]

\* variant: an insert that keeps the entry a key already has
IndexInsertKeepsOld(idx, k, n, pos) ==
    IF k \in DOMAIN idx THEN idx ELSE (k :> <<n, pos>>) @@ idx

\* HashMap::insert
IndexInsert(idx, k, n, pos) == (k :> <<n, pos>>) @@ idx

\* HashMap::remove
IndexRemove(idx, k) == [j \in DOMAIN idx \ {k} |-> idx[j]]

\* ------------------------------------------------------------------- open

\* the replay loop over the records of segment i
RECURSIVE ReplayChunks(_, _, _, _, _)
ReplayChunks(chunks, c, i, pos, idx) ==
    IF c > Len(chunks) THEN [ok |-> TRUE, index |-> idx]
    ELSE LET command  == Decode(chunks[c])
             next_pos == pos + Len(chunks[c]) + 1
         IN IF command.type = "Err" THEN [ok |-> FALSE, index |-> idx]
            ELSE ReplayChunks(chunks, c + 1, i, next_pos,
                     IF command.type = "Set"
                     THEN IndexInsert(idx, command.key, i, pos)
                     ELSE IndexRemove(idx, command.key))

\* the loop "for i in 0..nfile" of open
RECURSIVE ReplayFiles(_, _, _, _)
ReplayFiles(fs, i, nfile, idx) ==
    IF i >= nfile THEN [ok |-> TRUE, index |-> idx]
    ELSE IF i \notin DOMAIN fs THEN [ok |-> FALSE, index |-> idx]
    ELSE LET r == ReplayChunks(SplitFrom(fs[i], 1), 1, i, 0, idx) IN
         IF r.ok THEN ReplayFiles(fs, i + 1, nfile, r.index) ELSE r

\* variant: open takes the number of segment files as the active id
OpenDirCountAsId(fs) ==
    IF 0 \notin DOMAIN fs
    THEN [ok |-> TRUE, index |-> EmptyMap, active |-> 0, files |-> (0 :> <<>>) @@ fs]
    ELSE LET nfile == Cardinality(DOMAIN fs)
             r     == ReplayFiles(fs, 0, nfile, EmptyMap)
         IN [ok |-> r.ok, index |-> r.index, active |-> nfile, files |-> fs]

\* KvStore::open on directory fs: the state it builds, or ok = FALSE
OpenDir(fs) ==
    IF 0 \notin DOMAIN fs
    THEN [ok |-> TRUE, index |-> EmptyMap, active |-> 0, files |-> (0 :> <<>>) @@ fs]
    ELSE LET nfile == Cardinality(DOMAIN fs)
             r     == ReplayFiles(fs, 0, nfile, EmptyMap)
         IN [ok |-> r.ok, index |-> r.index, active |-> nfile - 1, files |-> fs]

\* ------------------------------------------------------------------- init

\* KvStore::open on a directory that does not exist yet
StoreInit ==
    /\ files = (0 :> <<>>)
    /\ index = EmptyMap
    /\ active_nth_file = 0
    /\ writer_file = 0
    /\ wbuf = <<>>
    /\ status = "open"
    /\ lockw = "none"
    /\ lockr = {}
    /\ pc = [t \in Threads |-> "idle"]
    /\ op = [t \in Threads |-> NoOp]
    /\ res = [t \in Threads |-> NoRes]
    /\ last_pos = 0
    /\ new_index = EmptyMap
    /\ todo = {}
    /\ rm_i = 0
    /\ nops = 0
    /\ nreopen = 0
    /\ oracle = [k \in Keys |-> Unknown]
    /\ quiet = [k \in Keys |-> None]
    /\ pre_compact = NoAnswers
    /\ compacted = FALSE
    /\ closed_answers = NoAnswers
    /\ all_ok = TRUE
    /\ crash_at = "none"
    /\ io_failed = FALSE

\* no kvs-server process, and the directories dirs in the working directory
ServerDown(dirs) ==
    [engine |-> "none", db_dirs |-> dirs, pc |-> "down", kind |-> "none",
     exit_code |-> 0, nstart |-> 0]

Init == StoreInit /\ server = ServerDown({})

\* ------------------------------------------------------------------ calls

AllOps ==
    {[kind |-> "set", key |-> k, value |-> v] : k \in Keys, v \in Values}
    \cup {[kind |-> "get", key |-> k, value |-> NoStr] : k \in Keys}
    \cup {[kind |-> "rm", key |-> k, value |-> NoStr] : k \in Keys}

\* the Command a set or remove appends
CommandOf(o) == IF o.kind = "set" THEN SetCmd(o.key, o.value) ELSE RmCmd(o.key)

\* self.lock.write(): granted when no thread holds the lock
WriteLockFree == lockw = "none" /\ lockr = {}

\* variant: a read guard granted while another thread holds the write guard
ReadLockAlways == TRUE

\* self.lock.read(): granted when no thread holds the lock for writing
ReadLockFree == lockw = "none"

\* variant: remove appends its tombstone without looking the key up
RemovePresentAlways(idx, k) == TRUE

\* state.index.contains_key(&key) of remove
RemovePresent(idx, k) == k \in DOMAIN idx

\* variant: remove appends its tombstone and leaves the index entry in place
IndexAfterKeepsRemoved(idx, o, n, pos) ==
    IF o.kind = "set" THEN IndexInsert(idx, o.key, n, pos) ELSE idx

\* the index after the append of set (index.insert) or remove (index.remove)
IndexAfter(idx, o, n, pos) ==
    IF o.kind = "set" THEN IndexInsert(idx, o.key, n, pos) ELSE IndexRemove(idx, o.key)

\* last_pos > SINGLE_FILE_SIZE of try_compact
MustRoll(pos) == pos > SINGLE_FILE_SIZE

\* (state.index.len() as u64) < state.active_nth_file * 1024 of try_compact
MustCompact(idx, n) == Cardinality(DOMAIN idx) < n * LIVE_RATIO

\* variant: compact records the start of the segment for every record
CompactEntryStart(pos) == <<0, 0>>

\* variant: compact keeps the id the active segment had before the rename
CompactEntryKeepsId(pos) == <<active_nth_file, pos>>

\* the entry compact puts into new_index for a record now at offset pos
CompactEntry(pos) == <<0, pos>>

\* what the history records for key k when a write of call o returns r
OracleAfter(o, r) ==
    IF r = Ok THEN (IF o.kind = "set" THEN Some(o.value) ELSE None)
    ELSE IF r = KeyNotFound /\ oracle[o.key] = None THEN None
    ELSE Unknown

\* the body of set/remove ends with result r; the locals go out of scope
Finish(t, r) ==
    /\ pc' = [pc EXCEPT ![t] = "ret"]
    /\ res' = [res EXCEPT ![t] = r]
    /\ lockw' = lockw
    /\ last_pos' = 0
    /\ new_index' = EmptyMap
    /\ todo' = {}
    /\ rm_i' = 0
    /\ oracle' = [oracle EXCEPT ![op[t].key] = OracleAfter(op[t], r)]
    /\ quiet' = Answers(index', files')
    /\ all_ok' = (all_ok /\ r = Ok)

\* a thread calls set, get or remove on its handle
Call(t, o) ==
    /\ status = "open"
    /\ crash_at = "none"
    /\ pc[t] = "idle"
    /\ nops < MaxOps
    /\ pc' = [pc EXCEPT ![t] = "called"]
    /\ op' = [op EXCEPT ![t] = o]
    /\ nops' = nops + 1
    /\ closed_answers' = NoAnswers
    /\ UNCHANGED <<files, index, active_nth_file, writer_file, wbuf, status, lockw,
                   lockr, res, last_pos, new_index, todo, rm_i, nreopen, oracle,
                   quiet, pre_compact, compacted, all_ok, crash_at, io_failed,
                   server>>

\* set, remove: let mut state = self.lock.write().unwrap()
WriteLock(t) ==
    /\ UNCHANGED <<crash_at, io_failed, server>>
    /\ pc[t] = "called"
    /\ op[t].kind \in {"set", "rm"}
    /\ WriteLockFree
    /\ lockw' = t
    /\ pc' = [pc EXCEPT ![t] = "locked"]
    /\ compacted' = FALSE
    /\ pre_compact' = NoAnswers
    /\ UNCHANGED <<files, index, active_nth_file, writer_file, wbuf, status, lockr,
                   op, res, last_pos, new_index, todo, rm_i, nops, nreopen, oracle,
                   quiet, closed_answers, all_ok>>

\* remove, the else branch: Err(Error::KeyNotFound)
RemoveAbsent(t) ==
    /\ UNCHANGED <<crash_at, io_failed, server>>
    /\ pc[t] = "locked"
    /\ op[t].kind = "rm"
    /\ ~RemovePresent(index, op[t].key)
    /\ UNCHANGED <<files, index, active_nth_file, writer_file, wbuf, status, lockr,
                   op, nops, nreopen, pre_compact, compacted, closed_answers>>
    /\ Finish(t, KeyNotFound)

\* set, remove: KvStore::write_command_to_writer(&mut state.active_writer, &command)
\* (seek to the end, which writes out the buffer; take the position; buffer the record)
WriteCommand(t) ==
    /\ UNCHANGED <<crash_at, io_failed, server>>
    /\ pc[t] = "locked"
    /\ op[t].kind = "set" \/ RemovePresent(index, op[t].key)
    /\ files' = AppendTo(files, writer_file, wbuf)
    /\ last_pos' = Len(files'[writer_file])
    /\ wbuf' = Encode(CommandOf(op[t])) \o <<"#">>
    /\ pc' = [pc EXCEPT ![t] = "flush"]
    /\ UNCHANGED <<index, active_nth_file, writer_file, status, lockw, lockr, op, res,
                   new_index, todo, rm_i, nops, nreopen, oracle, quiet,
                   pre_compact, compacted, closed_answers, all_ok>>

\* set, remove: state.active_writer.flush() and the update of state.index
Flush(t) ==
    /\ UNCHANGED <<crash_at, io_failed, server>>
    /\ pc[t] = "flush"
    /\ files' = AppendTo(files, writer_file, wbuf)
    /\ wbuf' = <<>>
    /\ index' = IndexAfter(index, op[t], active_nth_file, last_pos)
    /\ pc' = [pc EXCEPT ![t] = "try_compact"]
    /\ UNCHANGED <<active_nth_file, writer_file, status, lockw, lockr, op, res,
                   last_pos, new_index, todo, rm_i, nops, nreopen, oracle, quiet,
                   pre_compact, compacted, closed_answers, all_ok>>

\* try_compact with last_pos <= SINGLE_FILE_SIZE: the call returns Ok
NoRollover(t) ==
    /\ UNCHANGED <<crash_at, io_failed, server>>
    /\ pc[t] = "try_compact"
    /\ ~MustRoll(last_pos)
    /\ UNCHANGED <<files, index, active_nth_file, writer_file, wbuf, status, lockr,
                   op, nops, nreopen, pre_compact, compacted, closed_answers>>
    /\ Finish(t, Ok)

\* try_compact with last_pos > SINGLE_FILE_SIZE: a new active file is opened
\* (create, write, no truncate), then compact is entered or the call returns Ok
Rollover(t) ==
    /\ UNCHANGED <<crash_at, io_failed, server>>
    /\ pc[t] = "try_compact"
    /\ MustRoll(last_pos)
    /\ active_nth_file' = active_nth_file + 1
    /\ files' = IF active_nth_file' \in DOMAIN files THEN files
                ELSE (active_nth_file' :> <<>>) @@ files
    /\ writer_file' = active_nth_file'
    /\ UNCHANGED <<index, wbuf, status, lockr, op, nops, nreopen, compacted,
                   closed_answers>>
    /\ IF MustCompact(index, active_nth_file')
       THEN /\ pc' = [pc EXCEPT ![t] = IF DOMAIN index = {} THEN "remove_files"
                                       ELSE "compact"]
            /\ new_index' = EmptyMap
            /\ todo' = DOMAIN index
            /\ rm_i' = 0
            /\ pre_compact' = Answers(index, files')
            /\ UNCHANGED <<res, lockw, last_pos, oracle, quiet, all_ok>>
       ELSE /\ pre_compact' = pre_compact
            /\ Finish(t, Ok)

\* compact, one iteration of "for (key, (n, pos)) in &state.index", in any order
CompactCopy(t, k) ==
    /\ UNCHANGED <<crash_at, io_failed, server>>
    /\ pc[t] = "compact"
    /\ k \in todo
    /\ LET n   == index[k][1]
           pos == index[k][2]
           c   == ReadCommandFrom(files, n, pos)
       IN IF n < active_nth_file /\ c.type \in {"Err", "IOError"}
          THEN /\ UNCHANGED <<files, wbuf>>
               /\ UNCHANGED <<index, active_nth_file, writer_file, status, lockr, op,
                              nops, nreopen, pre_compact, compacted,
                              closed_answers>>
               /\ Finish(t, IF c.type = "Err" THEN ErrSerde ELSE ErrIO)
          ELSE /\ IF n < active_nth_file
                  THEN /\ files' = AppendTo(files, writer_file, wbuf)
                       /\ wbuf' = Encode(c) \o <<"#">>
                       /\ new_index' = (k :> CompactEntry(Len(files'[writer_file])))
                                        @@ new_index
                  ELSE /\ UNCHANGED <<files, wbuf>>
                       /\ new_index' = (k :> CompactEntry(pos)) @@ new_index
               /\ todo' = todo \ {k}
               /\ pc' = [pc EXCEPT ![t] = IF todo' = {} THEN "remove_files"
                                          ELSE "compact"]
               /\ UNCHANGED <<index, active_nth_file, writer_file, status, lockw,
                              lockr, op, res, last_pos, rm_i, nops, nreopen, oracle,
                              quiet, pre_compact, compacted, closed_answers,
                              all_ok>>

\* compact, one iteration of "for i in 0..state.active_nth_file": fs::remove_file
CompactRemove(t) ==
    /\ UNCHANGED <<crash_at, io_failed, server>>
    /\ pc[t] = "remove_files"
    /\ rm_i < active_nth_file
    /\ rm_i \in DOMAIN files
    /\ files' = Unlink(files, rm_i)
    /\ rm_i' = rm_i + 1
    /\ UNCHANGED <<index, active_nth_file, writer_file, wbuf, status, lockw, lockr,
                   pc, op, res, last_pos, new_index, todo, nops, nreopen, oracle,
                   quiet, pre_compact, compacted, closed_answers, all_ok>>

\* compact: fs::rename(self.active_path(state), self.path_at(0)); the open
\* descriptor of the active writer stays on the renamed file
CompactRename(t) ==
    /\ UNCHANGED <<crash_at, io_failed, server>>
    /\ pc[t] = "remove_files"
    /\ rm_i = active_nth_file
    /\ active_nth_file \in DOMAIN files
    /\ files' = (0 :> files[active_nth_file]) @@ Unlink(Unlink(files, active_nth_file), 0)
    /\ writer_file' = IF writer_file = active_nth_file THEN 0 ELSE writer_file
    /\ pc' = [pc EXCEPT ![t] = "install"]
    /\ UNCHANGED <<index, active_nth_file, wbuf, status, lockw, lockr, op, res,
                   last_pos, new_index, todo, rm_i, nops, nreopen, oracle, quiet,
                   pre_compact, compacted, closed_answers, all_ok>>

\* compact: state.index = new_index; state.active_nth_file = 0; the writer is
\* replaced by one on kvs.data.0 (append), and the writer it replaces is dropped,
\* which writes out its buffer; then try_compact and the call return Ok
CompactInstall(t) ==
    /\ UNCHANGED <<crash_at, io_failed, server>>
    /\ pc[t] = "install"
    /\ index' = new_index
    /\ active_nth_file' = 0
    /\ files' = LET fs == IF 0 \in DOMAIN files THEN files ELSE (0 :> <<>>) @@ files
                IN AppendTo(fs, writer_file, wbuf)
    /\ wbuf' = <<>>
    /\ writer_file' = 0
    /\ compacted' = TRUE
    /\ UNCHANGED <<status, lockr, op, nops, nreopen, pre_compact, closed_answers>>
    /\ Finish(t, Ok)

\* get: let state = self.lock.read().unwrap()
GetLock(t) ==
    /\ UNCHANGED <<crash_at, io_failed, server>>
    /\ pc[t] = "called"
    /\ op[t].kind = "get"
    /\ ReadLockFree
    /\ lockr' = lockr \cup {t}
    /\ pc' = [pc EXCEPT ![t] = "reading"]
    /\ UNCHANGED <<files, index, active_nth_file, writer_file, wbuf, status, lockw,
                   op, res, last_pos, new_index, todo, rm_i, nops, nreopen, oracle,
                   quiet, pre_compact, compacted, closed_answers, all_ok>>

\* get: the lookup and the read of the record, under the read guard
GetRead(t) ==
    /\ UNCHANGED <<crash_at, io_failed, server>>
    /\ pc[t] = "reading"
    /\ res' = [res EXCEPT ![t] = GetBody(op[t].key)]
    /\ pc' = [pc EXCEPT ![t] = "got"]
    /\ UNCHANGED <<files, index, active_nth_file, writer_file, wbuf, status, lockw,
                   lockr, op, last_pos, new_index, todo, rm_i, nops, nreopen, oracle,
                   quiet, pre_compact, compacted, closed_answers, all_ok>>

\* get returns its result to the caller and the read guard is dropped
GetReturn(t) ==
    /\ UNCHANGED <<crash_at, io_failed, server>>
    /\ pc[t] = "got"
    /\ lockr' = lockr \ {t}
    /\ pc' = [pc EXCEPT ![t] = "idle"]
    /\ op' = [op EXCEPT ![t] = NoOp]
    /\ res' = [res EXCEPT ![t] = NoRes]
    /\ UNCHANGED <<files, index, active_nth_file, writer_file, wbuf, status, lockw,
                   last_pos, new_index, todo, rm_i, nops, nreopen, oracle, quiet,
                   pre_compact, compacted, closed_answers, all_ok>>

\* set/remove returns its result to the caller and the write guard is dropped
Return(t) ==
    /\ UNCHANGED <<crash_at, io_failed, server>>
    /\ pc[t] = "ret"
    /\ lockw' = "none"
    /\ pc' = [pc EXCEPT ![t] = "idle"]
    /\ op' = [op EXCEPT ![t] = NoOp]
    /\ res' = [res EXCEPT ![t] = NoRes]
    /\ UNCHANGED <<files, index, active_nth_file, writer_file, wbuf, status, lockr,
                   last_pos, new_index, todo, rm_i, nops, nreopen, oracle, quiet,
                   pre_compact, compacted, closed_answers, all_ok>>

\* every handle is dropped: the BufWriter writes out its buffer and the state is freed
Close ==
    /\ UNCHANGED <<crash_at, io_failed, server>>
    /\ status = "open"
    /\ crash_at = "none"
    /\ \A t \in Threads : pc[t] = "idle"
    /\ nreopen < MaxReopen
    /\ files' = AppendTo(files, writer_file, wbuf)
    /\ wbuf' = <<>>
    /\ closed_answers' = Answers(index, files)
    /\ status' = "closed"
    /\ index' = EmptyMap
    /\ active_nth_file' = 0
    /\ writer_file' = 0
    /\ quiet' = NoAnswers
    /\ compacted' = FALSE
    /\ pre_compact' = NoAnswers
    /\ nreopen' = nreopen + 1
    /\ UNCHANGED <<lockw, lockr, pc, op, res, last_pos, new_index, todo, rm_i, nops,
                   oracle, all_ok>>

\* KvStore::open on the directory a dropped store has left
Open ==
    /\ UNCHANGED <<crash_at, io_failed, server>>
    /\ status = "closed"
    /\ LET r == OpenDir(files) IN
       IF r.ok
       THEN /\ status' = "open"
            /\ files' = r.files
            /\ index' = r.index
            /\ active_nth_file' = r.active
            /\ writer_file' = r.active
            /\ quiet' = Answers(r.index, r.files)
       ELSE /\ status' = "failed"
            /\ UNCHANGED <<files, index, active_nth_file, writer_file, quiet>>
    /\ UNCHANGED <<wbuf, lockw, lockr, pc, op, res, last_pos, new_index, todo, rm_i,
                   nops, nreopen, oracle, pre_compact, compacted, closed_answers,
                   all_ok>>

Next ==
    \/ \E t \in Threads, o \in AllOps : Call(t, o)
    \/ \E t \in Threads : WriteLock(t)
    \/ \E t \in Threads : RemoveAbsent(t)
    \/ \E t \in Threads : WriteCommand(t)
    \/ \E t \in Threads : Flush(t)
    \/ \E t \in Threads : NoRollover(t)
    \/ \E t \in Threads : Rollover(t)
    \/ \E t \in Threads, k \in Keys : CompactCopy(t, k)
    \/ \E t \in Threads : CompactRemove(t)
    \/ \E t \in Threads : CompactRename(t)
    \/ \E t \in Threads : CompactInstall(t)
    \/ \E t \in Threads : GetLock(t)
    \/ \E t \in Threads : GetRead(t)
    \/ \E t \in Threads : GetReturn(t)
    \/ \E t \in Threads : Return(t)
    \/ Close
    \/ Open

Spec == Init /\ [][Next]_vars

\* ------------------------------------------------------------------ crash

\* positions of a thread inside the body of set/remove, the write guard held
WriterBody ==
    {"locked", "flush", "try_compact", "compact", "remove_files", "install"}

\* positions inside compact
InCompact == {"compact", "remove_files", "install"}

\* the prefixes of the buffer that a flush cut short may have written
TornPrefixes(b) == {SubSeq(b, 1, n) : n \in 1..(Len(b) - 1)}

\* The process stops (kill, power loss) and only the directory survives.  The
\* bytes in the BufWriter are lost; when the stop falls inside flush(), a
\* prefix of them may have reached the file.
Crash ==
    /\ status = "open"
    /\ crash_at = "none"
    /\ LET w == IF lockw = "none" THEN "none" ELSE pc[lockw] IN
       \/ /\ files' = files
          /\ crash_at' = IF w = "none" THEN "idle" ELSE w
       \/ /\ w = "flush"
          /\ \E b \in TornPrefixes(wbuf) : files' = AppendTo(files, writer_file, b)
          /\ crash_at' = "torn"
    /\ oracle' = [k \in Keys |->
                    IF lockw # "none" /\ op[lockw].key = k THEN Unknown ELSE oracle[k]]
    /\ status' = "closed"
    /\ index' = EmptyMap
    /\ active_nth_file' = 0
    /\ writer_file' = 0
    /\ wbuf' = <<>>
    /\ lockw' = "none"
    /\ lockr' = {}
    /\ pc' = [t \in Threads |-> "idle"]
    /\ op' = [t \in Threads |-> NoOp]
    /\ res' = [t \in Threads |-> NoRes]
    /\ last_pos' = 0
    /\ new_index' = EmptyMap
    /\ todo' = {}
    /\ rm_i' = 0
    /\ quiet' = NoAnswers
    /\ pre_compact' = NoAnswers
    /\ compacted' = FALSE
    /\ closed_answers' = NoAnswers
    /\ UNCHANGED <<nops, nreopen, all_ok, io_failed, server>>

NextCrash == Next \/ Crash

SpecCrash == Init /\ [][NextCrash]_vars

\* ------------------------------------------------- file operations failing

\* try_compact: the new active file cannot be opened; "?" returns the error
\* after state.active_nth_file += 1, the writer is not replaced
RolloverOpenFails(t) ==
    /\ ~io_failed
    /\ pc[t] = "try_compact"
    /\ MustRoll(last_pos)
    /\ active_nth_file' = active_nth_file + 1
    /\ io_failed' = TRUE
    /\ UNCHANGED <<files, index, writer_file, wbuf, status, lockr, op, nops, nreopen,
                   pre_compact, compacted, closed_answers, crash_at, server>>
    /\ Finish(t, ErrIO)

\* compact: File::open of a sealed segment fails in read_command_from
CompactReadFails(t, k) ==
    /\ ~io_failed
    /\ pc[t] = "compact"
    /\ k \in todo
    /\ index[k][1] < active_nth_file
    /\ io_failed' = TRUE
    /\ UNCHANGED <<files, index, active_nth_file, writer_file, wbuf, status, lockr,
                   op, nops, nreopen, pre_compact, compacted, closed_answers,
                   crash_at, server>>
    /\ Finish(t, ErrIO)

\* compact: fs::remove_file(self.path_at(i)) fails
CompactRemoveFails(t) ==
    /\ ~io_failed
    /\ pc[t] = "remove_files"
    /\ rm_i < active_nth_file
    /\ io_failed' = TRUE
    /\ UNCHANGED <<files, index, active_nth_file, writer_file, wbuf, status, lockr,
                   op, nops, nreopen, pre_compact, compacted, closed_answers,
                   crash_at, server>>
    /\ Finish(t, ErrIO)

\* compact: fs::rename(active_path, path_at(0)) fails
CompactRenameFails(t) ==
    /\ ~io_failed
    /\ pc[t] = "remove_files"
    /\ rm_i = active_nth_file
    /\ io_failed' = TRUE
    /\ UNCHANGED <<files, index, active_nth_file, writer_file, wbuf, status, lockr,
                   op, nops, nreopen, pre_compact, compacted, closed_answers,
                   crash_at, server>>
    /\ Finish(t, ErrIO)

\* compact: the open of kvs.data.0 for the new writer fails, after
\* state.index = new_index and state.active_nth_file = 0; the old writer, on
\* the renamed file, stays in place with its buffer
CompactReopenFails(t) ==
    /\ ~io_failed
    /\ pc[t] = "install"
    /\ index' = new_index
    /\ active_nth_file' = 0
    /\ io_failed' = TRUE
    /\ UNCHANGED <<files, writer_file, wbuf, status, lockr, op, nops, nreopen,
                   pre_compact, compacted, closed_answers, crash_at, server>>
    /\ Finish(t, ErrIO)

NextFault ==
    \/ Next
    \/ \E t \in Threads : RolloverOpenFails(t)
    \/ \E t \in Threads, k \in Keys : CompactReadFails(t, k)
    \/ \E t \in Threads : CompactRemoveFails(t)
    \/ \E t \in Threads : CompactRenameFails(t)
    \/ \E t \in Threads : CompactReopenFails(t)

SpecFault == Init /\ [][NextFault]_vars

\* ------------------------------------------------------------- kvs-server

EngineKinds == {"kvs", "sled"}

\* the values of --engine: not given, an engine name, any other string
EngineFlags == {"none", "kvs", "sled", "other"}

\* check_engine(engine) with the directories dirs present: the EngineKind it
\* returns, or "exit" when it ends the process with exit(1)
check_engine(engine, dirs) ==
    IF engine \notin EngineKinds \cup {"none"} THEN "exit"
    ELSE LET exist_engine == IF "kvs" \in dirs THEN "kvs"
                             ELSE IF "sled" \in dirs THEN "sled"
                             ELSE "none"
         IN CASE engine = "none" /\ exist_engine = "none" -> "kvs"
              [] engine # "none" /\ exist_engine # "none" /\ engine = exist_engine
                    -> engine
              [] engine # "none" /\ exist_engine # "none" /\ engine # exist_engine
                    -> "exit"
              [] OTHER -> IF engine # "none" THEN engine ELSE exist_engine

\* the store variables, which kvs-server leaves to the engine
store == <<files, index, active_nth_file, writer_file, wbuf, status, lockw, lockr,
           pc, op, res, last_pos, new_index, todo, rm_i, nops, nreopen,
           oracle, quiet, pre_compact, compacted, closed_answers, all_ok,
           crash_at, io_failed>>

\* kvs-server is started in a working directory, with or without --engine
Start(f) ==
    /\ server.pc = "down"
    /\ server.nstart < MaxStart
    /\ server' = [server EXCEPT !.engine = f, !.pc = "main", !.kind = "none",
                                !.exit_code = 0, !.nstart = @ + 1]
    /\ UNCHANGED store

\* main: let engine = check_engine(engine)
MainCheck ==
    /\ server.pc = "main"
    /\ LET e == check_engine(server.engine, server.db_dirs) IN
       server' = IF e = "exit"
                 THEN [server EXCEPT !.pc = "exited", !.exit_code = 1]
                 ELSE [server EXCEPT !.pc = "checked", !.kind = e]
    /\ UNCHANGED store

\* main: the engine is opened on "db." + engine.as_str(), which creates the
\* directory when it is missing, and the server runs
MainOpen ==
    /\ server.pc = "checked"
    /\ server' = [server EXCEPT !.db_dirs = @ \cup {server.kind},
                                !.pc = "serving"]
    /\ UNCHANGED store

\* the process is gone: it has exited, or the running server is stopped
Stop ==
    /\ server.pc \in {"exited", "serving"}
    /\ server' = [server EXCEPT !.pc = "down"]
    /\ UNCHANGED store

\* any combination of the directories db.kvs and db.sled in the working directory
ServerInit ==
    /\ StoreInit
    /\ \E dirs \in SUBSET EngineKinds : server = ServerDown(dirs)

NextServer ==
    \/ \E f \in EngineFlags : Start(f)
    \/ MainCheck
    \/ MainOpen
    \/ Stop

SpecServer == ServerInit /\ [][NextServer]_vars

\* ------------------------------------------------------------ few live keys

\* the keys that are live or that a set in progress makes live
LiveOrPending ==
    DOMAIN index \cup {op[u].key : u \in {v \in Threads : op[v].kind = "set"}}

\* a call of a workload that keeps the number of live keys below the factor
\* of the compaction condition
CallFew(t, o) ==
    /\ o.kind = "set" => Cardinality(LiveOrPending \cup {o.key}) < LIVE_RATIO
    /\ Call(t, o)

NextFew ==
    \/ \E t \in Threads, o \in AllOps : CallFew(t, o)
    \/ \E t \in Threads : WriteLock(t)
    \/ \E t \in Threads : RemoveAbsent(t)
    \/ \E t \in Threads : WriteCommand(t)
    \/ \E t \in Threads : Flush(t)
    \/ \E t \in Threads : NoRollover(t)
    \/ \E t \in Threads : Rollover(t)
    \/ \E t \in Threads, k \in Keys : CompactCopy(t, k)
    \/ \E t \in Threads : CompactRemove(t)
    \/ \E t \in Threads : CompactRename(t)
    \/ \E t \in Threads : CompactInstall(t)
    \/ \E t \in Threads : GetLock(t)
    \/ \E t \in Threads : GetRead(t)
    \/ \E t \in Threads : GetReturn(t)
    \/ \E t \in Threads : Return(t)
    \/ Close
    \/ Open

SpecFew == Init /\ [][NextFew]_vars

\* ----------------------------------------------------------------- claims

\* a "#" of the directory that does not end a complete record
Tainted ==
    \E n \in DOMAIN files : \E i \in 1..Len(files[n]) :
        files[n][i] = "#" /\ (i = 1 \/ files[n][i - 1] # "}")

\* C1: once set(k,v) has returned Ok and no later set(k,_) or remove(k) has been
\* called, every get(k) returns Some(v), across rollovers and compactions.
GetAfterSet ==
    \A t \in Threads :
        (pc[t] = "got" /\ oracle[op[t].key][1] = "Some")
            => res[t] = oracle[op[t].key]

\* C2: once remove(k) has returned Ok and no later set(k,_) has been called,
\* every get(k) returns None, across rollovers and compactions.
GetAfterRemove ==
    \A t \in Threads :
        (pc[t] = "got" /\ oracle[op[t].key] = None) => res[t] = None

\* C2, witness: a get of a removed key has answered None after a write that
\* rolled the segment over and compacted.
GetAfterRemoveWitness ==
    \E t \in Threads :
        /\ pc[t] = "got"
        /\ oracle[op[t].key] = None
        /\ res[t] = None
        /\ compacted

\* C3: after set/remove calls that all returned Ok, dropping the handle and
\* opening the directory again succeeds and answers every get as before.
ReopenSameAnswers ==
    all_ok =>
        /\ status # "failed"
        /\ (status = "open" /\ closed_answers # NoAnswers)
               => Answers(index, files) = closed_answers

\* C4: when compact has run, to its end or to an error, every get answers as
\* it did when compact was entered.
CompactionPreserves ==
    (pre_compact # NoAnswers /\ \A t \in Threads : pc[t] \notin InCompact)
        => Answers(index, files) = pre_compact

\* C4, witness: a compaction of two live keys has completed.
CompactionPreservesWitness ==
    /\ compacted
    /\ \A k \in Keys : pre_compact[k][1] = "Some" /\ GetBody(k) = pre_compact[k]

\* C5: remove of a key that is not in the index returns KeyNotFound and leaves
\* the segments, the buffer, the index and the active segment id as they were.
RemoveAbsentNoChange ==
    [][\A t \in Threads :
          (/\ pc[t] = "locked"
           /\ op[t].kind = "rm"
           /\ op[t].key \notin DOMAIN index
           /\ pc'[t] # pc[t])
          => /\ pc'[t] = "ret"
             /\ res'[t] = KeyNotFound
             /\ files' = files
             /\ wbuf' = wbuf
             /\ index' = index
             /\ active_nth_file' = active_nth_file
             /\ writer_file' = writer_file]_vars

\* C5, witness: a remove has ended with KeyNotFound.
RemoveAbsentWitness ==
    \E t \in Threads : pc[t] = "ret" /\ op[t].kind = "rm" /\ res[t] = KeyNotFound

\* at most one thread is inside set/remove, and none while a get reads
WritesTotallyOrdered ==
    /\ Cardinality({t \in Threads : pc[t] \in WriterBody \cup {"ret"}}) <= 1
    /\ \A t, u \in Threads :
          pc[t] \in {"reading", "got"} => pc[u] \notin WriterBody \cup {"ret"}

\* C6: with several threads on one store the writes are totally ordered, and a
\* get(k) answers with the result of the last write of k that returned
\* (Some(v) after set(k,v), None after remove(k)).
Linearizable ==
    /\ WritesTotallyOrdered
    /\ \A t \in Threads :
          (pc[t] = "got" /\ oracle[op[t].key] # Unknown)
              => res[t] = oracle[op[t].key]

\* C7: a get never reads while a set/remove is between its first and last
\* step; the index entry it uses names an existing segment; it does not fail
\* with a missing file or a log mismatch; and it answers as the store answered
\* when the last write ended (before or after any concurrent write).
NoTornRead ==
    \A t \in Threads :
        pc[t] \in {"reading", "got"} =>
            /\ lockw = "none"
            /\ \A u \in Threads : pc[u] \notin WriterBody \cup {"ret"}
            /\ op[t].key \in DOMAIN index => index[op[t].key][1] \in DOMAIN files
            /\ pc[t] = "got" =>
                  /\ res[t] \notin {ErrIO, ErrorLogMeet}
                  /\ res[t] = quiet[op[t].key]

\* C7, witness: a get has read a value after a compaction while the other
\* thread waits for the lock with a set or remove.
NoTornReadWitness ==
    \E t, u \in Threads :
        /\ pc[t] = "got"
        /\ res[t][1] = "Some"
        /\ compacted
        /\ pc[u] = "called"
        /\ op[u].kind \in {"set", "rm"}

\* C8: when the process stops inside compact and the directory is opened
\* again, open succeeds and every key answers as its last write that returned
\* Ok (the key of the call that was cut short is left free; directories
\* holding a "#" inside a record are left aside, see C11).
CrashConsistent ==
    (crash_at \in InCompact /\ status # "closed" /\ ~Tainted)
        => /\ status = "open"
           /\ \A k \in Keys : oracle[k] # Unknown => GetBody(k) = oracle[k]

\* C9: when the process stops inside a flush that has written part of a
\* record, open succeeds and every key answers as its last write that
\* returned Ok.
TornTailTolerated ==
    (crash_at = "torn" /\ status # "closed")
        => /\ status = "open"
           /\ \A k \in Keys : oracle[k] # Unknown => GetBody(k) = oracle[k]

\* C10: when a compaction has completed, kvs.data.0 is the only segment, the
\* active id is 0, the active writer has kvs.data.0 open, and every index
\* entry has segment id 0.
AfterCompaction ==
    compacted =>
        /\ DOMAIN files = {0}
        /\ active_nth_file = 0
        /\ writer_file = 0
        /\ wbuf = <<>>
        /\ \A k \in DOMAIN index : index[k][1] = 0

\* C10, witness: a compaction that merged several segments has completed
\* with two live keys.
AfterCompactionWitness ==
    compacted /\ Cardinality(DOMAIN index) = 2

\* C11: the framing is reversible for every record: when set or remove has
\* appended its record, reading one record at the offset the write returned
\* yields the command that was written, and the replay of open finds exactly
\* that record there and so advances by its length + 1.
FramingReversible ==
    \A t \in Threads :
        pc[t] = "try_compact" =>
            /\ ReadCommandFrom(files, writer_file, last_pos) = CommandOf(op[t])
            /\ SplitFrom(files[writer_file], last_pos + 1)
                   = <<Encode(CommandOf(op[t]))>>

\* the engine --engine does not name
OtherEngine(e) == IF e = "kvs" THEN "sled" ELSE "kvs"

\* C12: whenever --engine names an engine and the data directory of the other
\* engine exists, check_engine ends the process with a nonzero exit code
\* instead of returning an engine to open.
EngineMismatchFatal ==
    (/\ server.pc \in {"checked", "exited"}
     /\ server.engine \in EngineKinds
     /\ OtherEngine(server.engine) \in server.db_dirs)
        => (server.pc = "exited" /\ server.exit_code # 0)

\* no thread is inside the body of set or remove
NoWriter == \A t \in Threads : pc[t] \notin WriterBody

\* C13: after open and set/remove calls that all returned Ok, every index
\* entry names an existing segment, the record read at its offset is a Set
\* record of its key, and it carries the value of the last set of that key;
\* so get does not return the log-mismatch error.
IndexSound ==
    (all_ok /\ status = "open" /\ NoWriter) =>
        \A k \in DOMAIN index :
            /\ index[k][1] \in DOMAIN files
            /\ LET c == ReadCommandFrom(files, index[k][1], index[k][2]) IN
                  /\ c.type = "Set"
                  /\ c.key = k
                  /\ Some(c.value) = oracle[k]
            /\ GetBody(k) # ErrorLogMeet

\* C14: after open and after every completed set or remove the segment files
\* are exactly kvs.data.0 .. kvs.data.<active_nth_file>, without a gap and
\* with none above, and the active writer has kvs.data.<active_nth_file> open.
SegmentsContiguous ==
    (status = "open" /\ NoWriter) =>
        /\ DOMAIN files = 0..active_nth_file
        /\ writer_file = active_nth_file

\* C14, witness: a store with a sealed segment has been dropped and opened
\* again, and a set or remove has completed on it.
SegmentsContiguousWitness ==
    /\ status = "open"
    /\ nreopen > 0
    /\ active_nth_file > 0
    /\ DOMAIN files = 0..active_nth_file
    /\ \E t \in Threads : pc[t] = "ret" /\ res[t] = Ok

\* the records of segment n, as the replay of open splits them
RecordsOf(n) == SplitFrom(files[n], 1)

\* C15: right after a compaction, segment 0 holds exactly one record for each
\* key of the index, a Set record carrying the value the key had, and holds
\* no Rm record and no superseded Set record.
CompactedSegmentLive ==
    compacted =>
        /\ 0 \in DOMAIN files
        /\ Len(RecordsOf(0)) = Cardinality(DOMAIN index)
        /\ \A i \in 1..Len(RecordsOf(0)) :
              LET c == Decode(RecordsOf(0)[i]) IN
                 /\ c.type = "Set"
                 /\ c.key \in DOMAIN index
                 /\ Some(c.value) = pre_compact[c.key]
                 /\ oracle[c.key] # Unknown => Some(c.value) = oracle[c.key]
        /\ \A k \in DOMAIN index :
              LET c == ReadCommandFrom(files, 0, index[k][2]) IN
                 c.type = "Set" /\ c.key = k

\* C15, witness: a compaction has left one record in segment 0, after a
\* remove of another key and a set that superseded an earlier one.
CompactedSegmentLiveWitness ==
    /\ compacted
    /\ Len(RecordsOf(0)) = 1
    /\ \E k \in Keys : oracle[k] = None
    /\ \E k \in DOMAIN index : oracle[k][1] = "Some"

\* C16: the compaction condition is applied on every set and remove, so when
\* a set or remove returns Ok, either the active id is 0 or the index holds
\* at least active id * 1024 keys.
CompactConditionOnReturn ==
    \A t \in Threads :
        (pc[t] = "ret" /\ res[t] = Ok) =>
            \/ active_nth_file = 0
            \/ ~MustCompact(index, active_nth_file)

\* C17: from an empty directory and with fewer live keys than the factor of
\* the compaction condition, every call that rolls over also compacts, so
\* between calls the active id is 0 and kvs.data.0 is the only segment.
SingleSegmentWhenFew ==
    (status = "open" /\ NoWriter) =>
        /\ active_nth_file = 0
        /\ DOMAIN files = {0}

\* the offsets at which the records of byte sequence f start
RecordStarts(f) ==
    (IF Len(f) > 0 THEN {0} ELSE {})
    \cup {i \in 2..(Len(f) - 1) : f[i] = "#" /\ f[i - 1] = "}"}

\* C18: every segment is capped by the size threshold: between calls, also
\* right after a compaction, the active segment holds no record that starts
\* beyond SINGLE_FILE_SIZE, so no set or remove appends to such a segment.
ActiveSegmentCapped ==
    (status = "open" /\ NoWriter /\ active_nth_file \in DOMAIN files) =>
        \A p \in RecordStarts(files[active_nth_file]) : ~MustRoll(p)

\* C19: when a file operation has failed inside rollover or compaction and
\* the set or remove has returned the error, the state stays consistent for
\* later calls: the active writer has kvs.data.<active_nth_file> open, and
\* every index entry names an existing segment in which the record at its
\* offset is a Set record of its key (directories holding a "#" inside a
\* record are left aside, see C11).
FaultLeavesConsistent ==
    (io_failed /\ status = "open" /\ NoWriter /\ ~Tainted) =>
        /\ writer_file = active_nth_file
        /\ \A k \in DOMAIN index :
              /\ index[k][1] \in DOMAIN files
              /\ LET c == ReadCommandFrom(files, index[k][1], index[k][2]) IN
                    c.type = "Set" /\ c.key = k

====
